---------------------------- MODULE Spec2Model ----------------------------
(***************************************************************************)
(* The three TypoScript tokenizers of typoscript.py (TypoScriptLexer,      *)
(* TypoScriptHtmlDataLexer, TypoScriptCssDataLexer) as a state machine.    *)
(*                                                                         *)
(* Text is a TLA+ string; a character is a string of length one.  Each     *)
(* rule's regular expression is written as a syntax tree (Lit, In, Cat,    *)
(* Alt, Star, Grp, ...) and matched by a backtracking matcher with the     *)
(* priorities of Python's re: alternatives left to right, quantifiers      *)
(* greedy.  The matching loop is the one the rule tables are run by        *)
(* (RegexLexer): first matching rule wins, one error token otherwise.      *)
(***************************************************************************)
EXTENDS Integers, Sequences, FiniteSets, TLC

(***************************************************************************)
(* Characters and character classes                                        *)
(***************************************************************************)
Chars(s) == {SubSeq(s, i, i) : i \in 1..Len(s)}

\* the character at 0-based index p ("" past the end)
At(text, p) == IF p >= 0 /\ p < Len(text) THEN SubSeq(text, p + 1, p + 1) ELSE ""

LowerLetters == "abcdefghijklmnopqrstuvwxyz"
UpperLetters == "ABCDEFGHIJKLMNOPQRSTUVWXYZ"
Digits == "0123456789"

\* \w
WordChars == Chars(LowerLetters) \cup Chars(UpperLetters) \cup Chars(Digits) \cup {"_"}
\* [\w\-_]
WordDash == WordChars \cup {"-"}
\* \s
SpaceChars == {" ", "\t", "\n", "\r", "\f"}
\* [a-fA-F0-9] and [0-9A-Fa-f]
HexChars == Chars("abcdefABCDEF") \cup Chars(Digits)

LowerChar(c) ==
    IF c \in Chars(UpperLetters)
    THEN LET i == CHOOSE j \in 1..26 : SubSeq(UpperLetters, j, j) = c
         IN  SubSeq(LowerLetters, i, i)
    ELSE c

RECURSIVE LowerStr(_)
LowerStr(s) == IF s = "" THEN "" ELSE LowerChar(SubSeq(s, 1, 1)) \o LowerStr(Tail(s))

(***************************************************************************)
(* Regular expressions as syntax trees                                     *)
(***************************************************************************)
Lit(s) == [t |-> "lit", s |-> s]
In(S) == [t |-> "in", S |-> S]
NotIn(S) == [t |-> "notin", S |-> S]
Dot == [t |-> "dot"]
Cat(ns) == [t |-> "cat", ns |-> ns]
Alt(ns) == [t |-> "alt", ns |-> ns]
Star(n) == [t |-> "star", n |-> n]
Plus(n) == Cat(<<n, Star(n)>>)
Opt(n) == Alt(<<n, Cat(<<>>)>>)
Rep(n, k) == Cat([i \in 1..k |-> n])
Grp(i, n) == [t |-> "grp", i |-> i, n |-> n]
Ahead(n) == [t |-> "ahead", n |-> n]
NotAhead(n) == [t |-> "notahead", n |-> n]
NotBehind(S) == [t |-> "notbehind", S |-> S]
Bol == [t |-> "bol"]
WordB == [t |-> "wordb"]
\* w1|w2|...|wn
Words(ws) == [t |-> "words", ws |-> ws]

\* re flags: IGNORECASE, DOTALL (MULTILINE is set for every tokenizer)
Flags(icase, dotall) == [icase |-> icase, dotall |-> dotall]

NoMatch == [ok |-> FALSE, end |-> 0, caps |-> <<>>]
Unset == <<-1, -1>>

LitAt(s, text, p, icase) ==
    /\ p + Len(s) <= Len(text)
    /\ LET sub == SubSeq(text, p + 1, p + Len(s))
       IN  IF icase THEN LowerStr(sub) = LowerStr(s) ELSE sub = s

InClass(c, S, icase) ==
    \/ c \in S
    \/ icase /\ \E d \in S : LowerChar(d) = LowerChar(c)

IsWordAt(text, p) == p >= 0 /\ p < Len(text) /\ At(text, p) \in WordChars

(***************************************************************************)
(* re.match at position p: the first match, in backtracking order, of the  *)
(* nodes on stk in sequence (alternatives left to right, quantifiers       *)
(* greedy).  A starred single-character node takes the longest run that    *)
(* lets the rest match.  Every starred body of the rule tables consumes at *)
(* least one character.                                                    *)
(***************************************************************************)
OneChar(n) == n.t \in {"in", "notin", "dot"}

\* whether the single-character node n matches the character at p
CharOk(n, text, p, fl) ==
    /\ p < Len(text)
    /\ CASE n.t = "in" -> InClass(At(text, p), n.S, fl.icase)
         [] n.t = "notin" -> ~InClass(At(text, p), n.S, fl.icase)
         [] n.t = "dot" -> fl.dotall \/ At(text, p) # "\n"

\* the end of the longest run of characters n matches from p on
RunEnd(n, text, p, fl) ==
    CHOOSE q \in p..Len(text) :
        /\ \A i \in p..(q - 1) : CharOk(n, text, i, fl)
        /\ ~CharOk(n, text, q, fl)

Smallest(S) == CHOOSE x \in S : \A y \in S : x <= y

\* F(v), with v evaluated once, before F is
Strict(v, F(_)) == CHOOSE r \in {F(x) : x \in {v}} : TRUE

RECURSIVE M(_, _, _, _, _)
RECURSIVE MStep(_, _, _, _, _)
RECURSIVE MAlt(_, _, _, _, _, _, _)

M(stk0, text0, p0, caps0, fl0) ==
    CHOOSE r \in {MStep(stk, text, p, caps, fl) :
                    <<stk, text, p, caps, fl>> \in {<<stk0, text0, p0, caps0, fl0>>}} : TRUE

MStep(stk, text, p, caps, fl) ==
    IF Len(stk) = 0 THEN [ok |-> TRUE, end |-> p, caps |-> caps]
    ELSE
    LET n == Head(stk)
        rest == Tail(stk)
    IN  CASE n.t = "lit" ->
               IF LitAt(n.s, text, p, fl.icase)
               THEN M(rest, text, p + Len(n.s), caps, fl) ELSE NoMatch
          [] OneChar(n) ->
               IF CharOk(n, text, p, fl)
               THEN M(rest, text, p + 1, caps, fl) ELSE NoMatch
          [] n.t = "cat" -> M(n.ns \o rest, text, p, caps, fl)
          [] n.t = "grp" ->
               M(<<n.n, [t |-> "close", i |-> n.i, s |-> p]>> \o rest, text, p, caps, fl)
          [] n.t = "close" ->
               M(rest, text, p, [caps EXCEPT ![n.i] = <<n.s, p>>], fl)
          [] n.t = "star" /\ OneChar(n.n) ->
               \* the longest run after which the rest matches
               Strict({<<q, M(rest, text, q, caps, fl)>> :
                          q \in p..RunEnd(n.n, text, p, fl)},
                      LAMBDA R :
                        IF \A x \in R : ~x[2].ok THEN NoMatch
                        ELSE (CHOOSE x \in R :
                                x[2].ok /\ \A y \in R : y[2].ok => y[1] <= x[1])[2])
          [] n.t = "star" /\ ~OneChar(n.n) ->
               Strict(M(<<n.n, n>> \o rest, text, p, caps, fl),
                      LAMBDA r : IF r.ok THEN r ELSE M(rest, text, p, caps, fl))
          [] n.t = "words" ->
               \* the first word after which the rest matches
               Strict({<<k, M(rest, text, p + Len(n.ws[k]), caps, fl)>> :
                          k \in {k \in 1..Len(n.ws) : LitAt(n.ws[k], text, p, fl.icase)}},
                      LAMBDA R :
                        IF \A x \in R : ~x[2].ok THEN NoMatch
                        ELSE (CHOOSE x \in R :
                                x[2].ok /\ \A y \in R : y[2].ok => x[1] <= y[1])[2])
          [] n.t = "alt" -> MAlt(n.ns, 1, rest, text, p, caps, fl)
          [] n.t = "ahead" ->
               IF M(<<n.n>>, text, p, caps, fl).ok
               THEN M(rest, text, p, caps, fl) ELSE NoMatch
          [] n.t = "notahead" ->
               IF M(<<n.n>>, text, p, caps, fl).ok
               THEN NoMatch ELSE M(rest, text, p, caps, fl)
          [] n.t = "notbehind" ->
               IF p > 0 /\ At(text, p - 1) \in n.S
               THEN NoMatch ELSE M(rest, text, p, caps, fl)
          [] n.t = "bol" ->
               IF p = 0 \/ At(text, p - 1) = "\n"
               THEN M(rest, text, p, caps, fl) ELSE NoMatch
          [] n.t = "wordb" ->
               IF IsWordAt(text, p - 1) # IsWordAt(text, p)
               THEN M(rest, text, p, caps, fl) ELSE NoMatch

MAlt(ns, k, rest, text, p, caps, fl) ==
    IF k > Len(ns) THEN NoMatch
    ELSE Strict(M(<<ns[k]>> \o rest, text, p, caps, fl),
                LAMBDA r : IF r.ok THEN r ELSE MAlt(ns, k + 1, rest, text, p, caps, fl))

\* the compiled pattern's match(text, pos); groups numbered 1..n
Match(re, n, text, p, fl) == M(<<re>>, text, p, [i \in 1..n |-> Unset], fl)


(***************************************************************************)
(* Rules: (pattern, action).  An action is one token type for the whole    *)
(* match, bygroups(...) with one entry per capture group, or using(lexer). *)
(***************************************************************************)
Tok(cat) == [k |-> "tok", cat |-> cat]
Using(lx) == [k |-> "using", lx |-> lx]
ByGroups(gs) == [k |-> "bygroups", gs |-> gs]
\* n is the number of capture groups of the pattern
Rule(name, re, n, act) ==
    [name |-> name, re |-> re, n |-> n, act |-> act, icase |-> FALSE]

(***************************************************************************)
(* TypoScriptCssDataLexer.tokens                                           *)
(***************************************************************************)
\* (.*)(###\w+###)(.*)
MarkerRe ==
    Cat(<<Grp(1, Star(Dot)),
          Grp(2, Cat(<<Lit("###"), Plus(In(WordChars)), Lit("###")>>)),
          Grp(3, Star(Dot))>>)

\* (\{)(\$)((?:[\w\-_]+\.)*)([\w\-_]+)(\})
ConstantRe ==
    Cat(<<Grp(1, Lit("{")), Grp(2, Lit("$")),
          Grp(3, Star(Cat(<<Plus(In(WordDash)), Lit(".")>>))),
          Grp(4, Plus(In(WordDash))), Grp(5, Lit("}"))>>)

\* (.*)(\{)([\w\-_]+)(\s*:\s*)([\w\-_]+)(\})(.*)
DataRegisterRe ==
    Cat(<<Grp(1, Star(Dot)), Grp(2, Lit("{")), Grp(3, Plus(In(WordDash))),
          Grp(4, Cat(<<Star(In(SpaceChars)), Lit(":"), Star(In(SpaceChars))>>)),
          Grp(5, Plus(In(WordDash))), Grp(6, Lit("}")), Grp(7, Star(Dot))>>)

\* \s*, which matches the empty text
WhitespaceRe_star == Star(In(SpaceChars))

\* \s, one character of a run
WhitespaceRe_one == In(SpaceChars)

\* \s+
WhitespaceRe == Plus(In(SpaceChars))

\* /\*(?:(?!\*/).)*\*/
BlockCommentRe ==
    Cat(<<Lit("/*"), Star(Cat(<<NotAhead(Lit("*/")), Dot>>)), Lit("*/")>>)

\* the line comment with //[^\n]+ for //[^\n]*
LineCommentRe_nonempty ==
    Cat(<<NotBehind({"#", "'", "\""}),
          Alt(<<Cat(<<Lit("#"),
                      NotAhead(Alt(<<Rep(In(HexChars), 6), Rep(In(HexChars), 3)>>)),
                      Plus(NotIn({"\n", "#"}))>>),
                Cat(<<Lit("//"), Plus(NotIn({"\n"}))>>)>>)>>)

\* (?<!(#|\'|"))(?:#(?!(?:[a-fA-F0-9]{6}|[a-fA-F0-9]{3}))[^\n#]+|//[^\n]*)
LineCommentRe ==
    Cat(<<NotBehind({"#", "'", "\""}),
          Alt(<<Cat(<<Lit("#"),
                      NotAhead(Alt(<<Rep(In(HexChars), 6), Rep(In(HexChars), 3)>>)),
                      Plus(NotIn({"\n", "#"}))>>),
                Cat(<<Lit("//"), Star(NotIn({"\n"}))>>)>>)>>)

\* [<>,:=\.\*%+\|]
OperatorChars == {"<", ">", ",", ":", "=", ".", "*", "%", "+", "|"}

MarkerAct == ByGroups(<<Tok("String"), Tok("Name.Constant"), Tok("String")>>)
ConstantAct ==
    ByGroups(<<Tok("String.Symbol"), Tok("Operator"), Tok("Name.Constant"),
               Tok("Name.Constant"), Tok("String.Symbol")>>)
DataRegisterAct ==
    ByGroups(<<Tok("String"), Tok("String.Symbol"), Tok("Name.Constant"),
               Tok("Operator"), Tok("Name.Constant"), Tok("String.Symbol"),
               Tok("String")>>)

css_1 == Rule("css-1", MarkerRe, 3, MarkerAct)
css_2 == Rule("css-2", ConstantRe, 5, ConstantAct)
css_3 == Rule("css-3", DataRegisterRe, 7, DataRegisterAct)
css_4 == Rule("css-4", WhitespaceRe, 0, Tok("Text"))
css_5 == Rule("css-5", BlockCommentRe, 0, Tok("Comment"))
css_6 == Rule("css-6", LineCommentRe, 1, Tok("Comment"))
css_7 == Rule("css-7", In(OperatorChars), 0, Tok("String"))
\* [\w"_\-!\/&;\(\)\{\}]+
css_8 ==
    Rule("css-8",
         Plus(In(WordChars \cup {"\"", "_", "-", "!", "/", "&", ";", "(", ")", "{", "}"})),
         0, Tok("String"))

TypoScriptCssDataLexer_root == <<css_1, css_2, css_3, css_4, css_5, css_6, css_7, css_8>>

(***************************************************************************)
(* TypoScriptHtmlDataLexer.tokens                                          *)
(***************************************************************************)
\* (EXT|FILE|LLL):[^\}\n"]*
LabelRe ==
    Cat(<<Grp(1, Words(<<"EXT", "FILE", "LLL">>)), Lit(":"),
          Star(NotIn({"}", "\n", "\""}))>>)

\* (INCLUDE_TYPOSCRIPT)
html_data_1 == Rule("htmldata-1", Grp(1, Lit("INCLUDE_TYPOSCRIPT")), 1, Tok("Name.Class"))
html_data_2 == Rule("htmldata-2", LabelRe, 1, Tok("String"))
html_data_3 == Rule("htmldata-3", MarkerRe, 3, MarkerAct)
html_data_4 == Rule("htmldata-4", ConstantRe, 5, ConstantAct)
html_data_5 == Rule("htmldata-5", DataRegisterRe, 7, DataRegisterAct)
html_data_6 == Rule("htmldata-6", WhitespaceRe, 0, Tok("Text"))
html_data_7 == Rule("htmldata-7", In(OperatorChars), 0, Tok("String"))
\* [\w"_\-!\/&;\(\)\{\}#]+
html_data_8 ==
    Rule("htmldata-8",
         Plus(In(WordChars \cup {"\"", "_", "-", "!", "/", "&", ";", "(", ")", "{", "}", "#"})),
         0, Tok("String"))

TypoScriptHtmlDataLexer_root ==
    <<html_data_1, html_data_2, html_data_3, html_data_4, html_data_5,
      html_data_6, html_data_7, html_data_8>>

(***************************************************************************)
(* TypoScriptLexer.tokens                                                  *)
(***************************************************************************)
\* 'comment'
comment_1 == Rule("comment-1", LineCommentRe, 1, Tok("Comment"))
comment_2 == Rule("comment-2", BlockCommentRe, 0, Tok("Comment"))
\* (\s*#\s*\n)
comment_3 ==
    Rule("comment-3",
         Grp(1, Cat(<<Star(In(SpaceChars)), Lit("#"), Star(In(SpaceChars)), Lit("\n")>>)),
         1, Tok("Comment"))
comment == <<comment_1, comment_2, comment_3>>

\* 'constant'
constant_1 == Rule("constant-1", ConstantRe, 5, ConstantAct)
\* (\{)([\w\-_]+)(\s*:\s*)([\w\-_]+)(\})
constant_2 ==
    Rule("constant-2",
         Cat(<<Grp(1, Lit("{")), Grp(2, Plus(In(WordDash))),
               Grp(3, Cat(<<Star(In(SpaceChars)), Lit(":"), Star(In(SpaceChars))>>)),
               Grp(4, Plus(In(WordDash))), Grp(5, Lit("}"))>>),
         5,
         ByGroups(<<Tok("String.Symbol"), Tok("Name.Constant"), Tok("Operator"),
                    Tok("Name.Constant"), Tok("String.Symbol")>>))
\* (#[a-fA-F0-9]{6}\b|#[a-fA-F0-9]{3}\b)
constant_3 ==
    Rule("constant-3",
         Grp(1, Alt(<<Cat(<<Lit("#"), Rep(In(HexChars), 6), WordB>>),
                      Cat(<<Lit("#"), Rep(In(HexChars), 3), WordB>>)>>)),
         1, Tok("String.Char"))
constant == <<constant_1, constant_2, constant_3>>

\* <[^\s].*>, which runs to the last '>'
html_1_greedy ==
    Rule("html-1", Cat(<<Lit("<"), NotIn(SpaceChars), Star(Dot), Lit(">")>>),
         0, Using("TypoScriptHtmlData"))

\* 'html'
\* <[^\s][^\n>]*>
html_1 ==
    Rule("html-1",
         Cat(<<Lit("<"), NotIn(SpaceChars), Star(NotIn({"\n", ">"})), Lit(">")>>),
         0, Using("TypoScriptHtmlData"))
\* &[^;\n]*;
html_2 == Rule("html-2", Cat(<<Lit("&"), Star(NotIn({";", "\n"})), Lit(";")>>), 0, Tok("String"))
\* (_CSS_DEFAULT_STYLE)\s*(\()(?s)(.*(?=\n\))), the whitespace in no group
html_3_ungrouped ==
    Rule("html-3",
         Cat(<<Grp(1, Lit("_CSS_DEFAULT_STYLE")), Star(In(SpaceChars)),
               Grp(2, Lit("(")),
               Grp(3, Cat(<<Star(Dot), Ahead(Lit("\n)"))>>))>>),
         3,
         ByGroups(<<Tok("Name.Class"), Tok("String.Symbol"),
                    Using("TypoScriptCssData")>>))

\* (_CSS_DEFAULT_STYLE)(\s*)(\()(?s)(.*(?=\n\)))
html_3 ==
    Rule("html-3",
         Cat(<<Grp(1, Lit("_CSS_DEFAULT_STYLE")), Grp(2, Star(In(SpaceChars))),
               Grp(3, Lit("(")),
               Grp(4, Cat(<<Star(Dot), Ahead(Lit("\n)"))>>))>>),
         4,
         ByGroups(<<Tok("Name.Class"), Tok("Text"), Tok("String.Symbol"),
                    Using("TypoScriptCssData")>>))
html == <<html_1, html_2, html_3>>

\* 'label'
label_1 == Rule("label-1", LabelRe, 1, Tok("String"))
\* (?![^\w\-_])([\w\-_]+(?:/[\w\-_]+)+/?)([^\s]*\n)
label_2 ==
    Rule("label-2",
         Cat(<<NotAhead(NotIn(WordDash)),
               Grp(1, Cat(<<Plus(In(WordDash)),
                            Plus(Cat(<<Lit("/"), Plus(In(WordDash))>>)),
                            Opt(Lit("/"))>>)),
               Grp(2, Cat(<<Star(NotIn(SpaceChars)), Lit("\n")>>))>>),
         2, ByGroups(<<Tok("String"), Tok("String")>>))
label == <<label_1, label_2>>

\* 'whitespace'
whitespace_1 == Rule("whitespace-1", WhitespaceRe, 0, Tok("Text"))
whitespace == <<whitespace_1>>

\* 'keywords'
Conditions ==
    <<"browser", "compatVersion", "dayofmonth", "dayofweek", "dayofyear",
      "device", "ELSE", "END", "GLOBAL", "globalString", "globalVar",
      "hostname", "hour", "IP", "language", "loginUser", "loginuser",
      "minute", "month", "page", "PIDinRootline", "PIDupinRootline",
      "system", "treeLevel", "useragent", "userFunc", "usergroup", "version">>
Functions ==
    <<"HTMLparser", "HTMLparser_tags", "addParams", "cache", "encapsLines",
      "filelink", "if", "imageLinkWrap", "imgResource", "makelinks",
      "numRows", "numberFormat", "parseFunc", "replacement", "round",
      "select", "split", "stdWrap", "strPad", "tableStyle", "tags",
      "textStyle", "typolink">>
ToplevelObjectsA ==
    <<"cObj", "field", "config", "content", "constants", "FEData", "file",
      "frameset", "includeLibs", "lib", "page", "plugin", "register",
      "resources", "sitemap", "sitetitle", "styles", "temp">>
ToplevelObjectsB ==
    <<"types", "xmlnews", "INCLUDE_TYPOSCRIPT", "_CSS_DEFAULT_STYLE",
      "_DEFAULT_PI_VARS", "_LOCAL_LANG">>
ContentObjects ==
    <<"CASE", "CLEARGIF", "COA", "COA_INT", "COBJ_ARRAY", "COLUMNS",
      "CONTENT", "CTABLE", "EDITPANEL", "FILE", "FILES", "FLUIDTEMPLATE",
      "FORM", "HMENU", "HRULER", "HTML", "IMAGE", "IMGTEXT", "IMG_RESOURCE",
      "LOAD_REGISTER", "MEDIA", "MULTIMEDIA", "OTABLE", "PAGE", "QTOBJECT",
      "RECORDS", "RESTORE_REGISTER", "SEARCHRESULT", "SVG", "SWFOBJECT",
      "TEMPLATE", "TEXT", "USER", "USER_INT">>
MenuStates ==
    <<"ACT", "ACTIFSUB", "ACTIFSUBRO", "ACTRO", "CUR", "CURIFSUB",
      "CURIFSUBRO", "CURRO", "IFSUB", "IFSUBRO", "NO", "SPC", "USERDEF1",
      "USERDEF1RO", "USERDEF2", "USERDEF2RO", "USR", "USRRO">>
MenuObjects ==
    <<"GMENU", "GMENU_FOLDOUT", "GMENU_LAYERS", "IMGMENU", "IMGMENUITEM",
      "JSMENU", "JSMENUITEM", "TMENU", "TMENUITEM", "TMENU_LAYERS">>

\* (\[)(?i)(browser|...|version)([^\]]*)(\])
\* the inline (?i) sets IGNORECASE for this whole pattern, and for no other
keywords_1 ==
    [Rule("keywords-1",
          Cat(<<Grp(1, Lit("[")), Grp(2, Words(Conditions)),
                Grp(3, Star(NotIn({"]"}))), Grp(4, Lit("]"))>>),
          4,
          ByGroups(<<Tok("String.Symbol"), Tok("Name.Constant"), Tok("Text"),
                     Tok("String.Symbol")>>))
     EXCEPT !.icase = TRUE]
\* (?=[\w\-_])(HTMLparser|...|typolink)(?![\w\-_])
keywords_2 ==
    Rule("keywords-2",
         Cat(<<Ahead(In(WordDash)), Grp(1, Words(Functions)), NotAhead(In(WordDash))>>),
         1, Tok("Name.Function"))
\* (?:(=?\s*<?\s+|^\s*))(cObj|...|tt_[^:\.\n\s]*|...|_LOCAL_LANG)(?![\w\-_])
keywords_3 ==
    Rule("keywords-3",
         Cat(<<Grp(1, Alt(<<Cat(<<Opt(Lit("=")), Star(In(SpaceChars)), Opt(Lit("<")),
                                  Plus(In(SpaceChars))>>),
                            Cat(<<Bol, Star(In(SpaceChars))>>)>>)),
               Grp(2, Alt(<<Words(ToplevelObjectsA),
                            Cat(<<Lit("tt_"), Star(NotIn({":", ".", "\n"} \cup SpaceChars))>>),
                            Words(ToplevelObjectsB)>>)),
               NotAhead(In(WordDash))>>),
         2, ByGroups(<<Tok("Operator"), Tok("Name.Builtin")>>))
\* (?=[\w\-_])(CASE|...|USER_INT)(?![\w\-_])
keywords_4 ==
    Rule("keywords-4",
         Cat(<<Ahead(In(WordDash)), Grp(1, Words(ContentObjects)), NotAhead(In(WordDash))>>),
         1, Tok("Name.Class"))
\* (?=[\w\-_])(ACT|...|USRRO)
keywords_5 ==
    Rule("keywords-5", Cat(<<Ahead(In(WordDash)), Grp(1, Words(MenuStates))>>),
         1, Tok("Name.Class"))
\* (?=[\w\-_])(GMENU|...|TMENU_LAYERS)
keywords_6 ==
    Rule("keywords-6", Cat(<<Ahead(In(WordDash)), Grp(1, Words(MenuObjects))>>),
         1, Tok("Name.Class"))
\* (?=[\w\-_])(PHP_SCRIPT(_EXT|_INT)?)
keywords_7 ==
    Rule("keywords-7",
         Cat(<<Ahead(In(WordDash)),
               Grp(1, Cat(<<Lit("PHP_SCRIPT"), Opt(Grp(2, Words(<<"_EXT", "_INT">>)))>>))>>),
         2, Tok("Name.Class"))
\* (?=[\w\-_])(userFunc)(?![\w\-_])
keywords_8 ==
    Rule("keywords-8",
         Cat(<<Ahead(In(WordDash)), Grp(1, Lit("userFunc")), NotAhead(In(WordDash))>>),
         1, Tok("Name.Function"))
keywords ==
    <<keywords_1, keywords_2, keywords_3, keywords_4, keywords_5, keywords_6,
      keywords_7, keywords_8>>

\* 'punctuation': [,\.]
punctuation_1 == Rule("punctuation-1", In({",", "."}), 0, Tok("Punctuation"))
punctuation == <<punctuation_1>>

\* 'operator'
operator_1 == Rule("operator-1", In(OperatorChars), 0, Tok("Operator"))
operator == <<operator_1>>

\* 'structure': [\{\}\(\)\[\]\\\\]
structure_1 ==
    Rule("structure-1", In({"{", "}", "(", ")", "[", "]", "\\"}), 0, Tok("String.Symbol"))
structure == <<structure_1>>

\* 'literal'
\* 0x[0-9A-Fa-f]+t?
literal_1 ==
    Rule("literal-1", Cat(<<Lit("0x"), Plus(In(HexChars)), Opt(Lit("t"))>>),
         0, Tok("Number.Hex"))
\* [0-9]+
literal_2 == Rule("literal-2", Plus(In(Chars(Digits))), 0, Tok("Number.Integer"))
\* (###\w+###)
literal_3 ==
    Rule("literal-3", Grp(1, Cat(<<Lit("###"), Plus(In(WordChars)), Lit("###")>>)),
         1, Tok("Name.Constant"))
literal == <<literal_1, literal_2, literal_3>>

\* [\w"\-_!\/&;@~]+
other_1_tilde ==
    Rule("other-1",
         Plus(In(WordChars \cup {"\"", "-", "_", "!", "/", "&", ";", "@", "~"})),
         0, Tok("Text"))

\* 'other': [\w"\-_!\/&;@]+
other_1 ==
    Rule("other-1",
         Plus(In(WordChars \cup {"\"", "-", "_", "!", "/", "&", ";", "@"})),
         0, Tok("Text"))
other == <<other_1>>

\* 'root' with operator included before punctuation
TypoScriptLexer_root_operator_first ==
    comment \o constant \o html \o label \o whitespace \o keywords \o operator
        \o punctuation \o structure \o literal \o other

\* 'root': the includes, expanded in place
TypoScriptLexer_root ==
    comment \o constant \o html \o label \o whitespace \o keywords \o punctuation
        \o operator \o structure \o literal \o other

(***************************************************************************)
(* The tokenizers                                                          *)
(***************************************************************************)
Lexers == {"TypoScript", "TypoScriptHtmlData", "TypoScriptCssData"}

\* the flattened 'root' table of a tokenizer
Tokens(lx) ==
    CASE lx = "TypoScript" -> TypoScriptLexer_root
      [] lx = "TypoScriptHtmlData" -> TypoScriptHtmlDataLexer_root
      [] lx = "TypoScriptCssData" -> TypoScriptCssDataLexer_root

\* flags = re.DOTALL | re.MULTILINE for TypoScriptLexer, re.MULTILINE otherwise
DotAll(lx) == lx = "TypoScript"

RuleMatch(rule, lx, text, p) ==
    Match(rule.re, rule.n, text, p, Flags(rule.icase, DotAll(lx)))

\* the loop over the table at p: the index k of the first rule that matches
\* and its match m, or k = 0 when none does
RECURSIVE FirstFrom(_, _, _, _, _)
FirstFrom(rules, k, lx, text, p) ==
    IF k > Len(rules) THEN [k |-> 0, m |-> NoMatch]
    ELSE Strict(RuleMatch(rules[k], lx, text, p),
                LAMBDA m : IF m.ok THEN [k |-> k, m |-> m]
                           ELSE FirstFrom(rules, k + 1, lx, text, p))

FirstMatch(lx, text, p) == FirstFrom(Tokens(lx), 1, lx, text, p)

(***************************************************************************)
(* Inputs: the texts the tokenizers are run on                             *)
(***************************************************************************)
MaxLen == 3
MaxPieces == 3
MaxBody == 3
MaxRest == 1
\* the bound on every family of texts under FairSpec
MaxFair == 2

\* the concatenations of at most n pieces of P
RECURSIVE Joins(_, _)
Joins(P, n) ==
    IF n = 0 THEN {""}
    ELSE LET S == Joins(P, n - 1) IN S \cup {s \o c : s \in S, c \in P}

Alphabet == {"#", "/", "a", " ", "\n", "~"}
TagPieces == {"<a>", "</a>", "<a ", ">", "{r:f}", "{$a.b}", "###M###"}
CommentPieces == {"#", "//", "/*", "*/", "fff", "x", "\n"}
KeywordPieces == {"=", " ", "<", "page", ",", ".", "a/b\n"}
CssBodyPieces == {"a", "\n)", "\n", " ", "~"}
RestPieces == {" = a"}

UpperChar(c) ==
    IF c \in Chars(LowerLetters)
    THEN LET i == CHOOSE j \in 1..26 : SubSeq(LowerLetters, j, j) = c
         IN  SubSeq(UpperLetters, i, i)
    ELSE c

RECURSIVE UpperStr(_)
UpperStr(s) == IF s = "" THEN "" ELSE UpperChar(SubSeq(s, 1, 1)) \o UpperStr(Tail(s))

\* a condition name as written in the table, in lower case and in upper case
Spellings(name) == {name, LowerStr(name), UpperStr(name)}
ConditionNames == {Conditions[i] : i \in 1..Len(Conditions)}
Rests == Joins(RestPieces, MaxRest)

ConditionInputs ==
    {"[" \o sp \o rest \o "]" :
        sp \in UNION {Spellings(name) : name \in ConditionNames}, rest \in Rests}

CssBlockInputs(n) == {"_CSS_DEFAULT_STYLE(" \o b : b \in Joins(CssBodyPieces, n)}

Samples ==
    {"<div>{register:foo}</div>", "// comment\n", "[browser = msie]",
     "[BROWSER = msie]", "{$plugin.tx_example.setting}",
     "_CSS_DEFAULT_STYLE (\na\n)\nb\n)", "a  = page\n"}

\* the texts lx is run on: of at most len characters of Alphabet, of at most
\* pieces pieces of a family, a block with a body of at most body pieces
Texts(lx, len, pieces, body) ==
    Joins(Alphabet, len)
      \cup (IF lx = "TypoScriptCssData" THEN {} ELSE Joins(TagPieces, pieces))
      \cup (IF lx = "TypoScriptHtmlData" THEN {} ELSE Joins(CommentPieces, pieces))
      \cup (IF lx = "TypoScript"
            THEN Joins(KeywordPieces, pieces) \cup ConditionInputs
                   \cup CssBlockInputs(body) \cup Samples
            ELSE {})

Inputs(lx) == Texts(lx, MaxLen, MaxPieces, MaxBody)
FairInputs(lx) == Texts(lx, MaxFair, MaxFair, MaxFair)

(***************************************************************************)
(* State                                                                   *)
(*   lexer  the tokenizer the caller invoked                               *)
(*   input  the text the caller passed                                     *)
(*   stack  the active matching loops, the caller's first: each with its   *)
(*          tokenizer, text, cursor pos, the offset off of its text in     *)
(*          input and, while a delegated loop runs, the end mend of the    *)
(*          match that delegated and the tokens of the groups after it     *)
(*   cur    the innermost loop's pass over its table at its cursor: the    *)
(*          first matching rule k and its match m                          *)
(*   out    the tokens yielded so far                                      *)
(*   spans  the spans of input handed to another tokenizer so far          *)
(*   last   what the last loop iteration did                               *)
(*   pc     "call" before the caller's call, "run" while its loop runs,    *)
(*          "done" once the loop has ended                                 *)
(***************************************************************************)
VARIABLES lexer, input, stack, cur, out, spans, last, pc

vars == <<lexer, input, stack, cur, out, spans, last, pc>>

Frame(lx, text, off) ==
    [lx |-> lx, text |-> text, pos |-> 0, off |-> off, mend |-> 0, after |-> <<>>]

Top == stack[Len(stack)]

\* where the next token starts, as an offset in input
Cursor == Top.off + Top.pos

Lookup(f) == FirstMatch(f.lx, f.text, f.pos)

Token(cat, val, at, f, rule) ==
    [cat |-> cat, val |-> val, at |-> at, lx |-> f.lx, rule |-> rule,
     depth |-> Len(stack) - 1]

GroupText(m, i, text) == SubSeq(text, m.caps[i][1] + 1, m.caps[i][2])

\* the index of the first using(...) entry of a bygroups whose group took part
\* in the match, 0 when there is none
UsingGroup(rule, m) ==
    IF rule.act.k # "bygroups" THEN 0
    ELSE LET U == {i \in 1..Len(rule.act.gs) :
                     rule.act.gs[i].k = "using" /\ m.caps[i] # Unset}
         IN  IF U = {} THEN 0 ELSE Smallest(U)

\* bygroups: one token for each group from..to that matched a non-empty text
RECURSIVE GroupTokens(_, _, _, _, _)
GroupTokens(rule, m, f, from, to) ==
    IF from > to THEN <<>>
    ELSE LET g == rule.act.gs[from]
             here == IF g.k = "tok" /\ m.caps[from] # Unset
                        /\ m.caps[from][2] > m.caps[from][1]
                     THEN <<Token(g.cat, GroupText(m, from, f.text),
                                  f.off + m.caps[from][1], f, rule.name)>>
                     ELSE <<>>
         IN  here \o GroupTokens(rule, m, f, from + 1, to)

Delegates(rule, m) == rule.act.k = "using" \/ UsingGroup(rule, m) # 0

Did(kind, f, rule, start, end) ==
    [kind |-> kind, lx |-> f.lx, rule |-> rule, start |-> start, end |-> end,
     depth |-> Len(stack) - 1]

\* the next state of the loops: the stack, and the pass over the table at the
\* new cursor
Loops(ns) ==
    /\ stack' = ns
    /\ cur' = Lookup(ns[Len(ns)])

\* the tokenizer lx is constructed and is about to be given text
Start(lx, text) ==
    /\ lexer = lx
    /\ input = text
    /\ stack = <<Frame(lx, text, 0)>>
    /\ cur = [k |-> 0, m |-> NoMatch]
    /\ out = <<>>
    /\ spans = <<>>
    /\ last = [kind |-> "init", lx |-> lx, rule |-> "", start |-> 0, end |-> 0,
               depth |-> 0]
    /\ pc = "call"

Init == \E lx \in Lexers : \E text \in Inputs(lx) : Start(lx, text)

\* get_tokens_unprocessed(text) is called: the loop starts at position 0
GetTokensUnprocessed ==
    /\ pc = "call"
    /\ pc' = "run"
    /\ Loops(stack)
    /\ UNCHANGED <<lexer, input, out, spans, last>>

\* a rule matches and yields its tokens itself
MatchRule ==
    /\ pc = "run"
    /\ cur.k # 0
    /\ LET f == Top
           rule == Tokens(f.lx)[cur.k]
           m == cur.m
       IN  /\ ~Delegates(rule, m)
           /\ out' = out \o
                 (IF rule.act.k = "tok"
                  THEN <<Token(rule.act.cat, SubSeq(f.text, f.pos + 1, m.end),
                               f.off + f.pos, f, rule.name)>>
                  ELSE GroupTokens(rule, m, f, 1, Len(rule.act.gs)))
           /\ Loops([stack EXCEPT ![Len(stack)].pos = m.end])
           /\ last' = Did("match", f, rule.name, f.pos, m.end)
    /\ UNCHANGED <<lexer, input, spans, pc>>

\* a rule matches and hands the match, or one group of it, to another tokenizer
Delegate ==
    /\ pc = "run"
    /\ cur.k # 0
    /\ LET f == Top
           rule == Tokens(f.lx)[cur.k]
           m == cur.m
           u == UsingGroup(rule, m)
       IN  /\ Delegates(rule, m)
           /\ out' = out \o (IF u = 0 THEN <<>> ELSE GroupTokens(rule, m, f, 1, u - 1))
           /\ Loops(Append([stack EXCEPT
                              ![Len(stack)].mend = m.end,
                              ![Len(stack)].after =
                                  IF u = 0 THEN <<>>
                                  ELSE GroupTokens(rule, m, f, u + 1, Len(rule.act.gs))],
                           IF u = 0
                           THEN Frame(rule.act.lx, SubSeq(f.text, f.pos + 1, m.end),
                                      f.off + f.pos)
                           ELSE Frame(rule.act.gs[u].lx, GroupText(m, u, f.text),
                                      f.off + m.caps[u][1])))
           /\ spans' = Append(spans,
                 IF u = 0
                 THEN [lx |-> rule.act.lx, rule |-> rule.name,
                       from |-> f.off + f.pos, to |-> f.off + m.end]
                 ELSE [lx |-> rule.act.gs[u].lx, rule |-> rule.name,
                       from |-> f.off + m.caps[u][1], to |-> f.off + m.caps[u][2]])
           /\ last' = Did("delegate", f, rule.name, f.pos, m.end)
    /\ UNCHANGED <<lexer, input, pc>>

\* no rule matches: the character at the cursor is yielded as an Error token
Fallback ==
    /\ pc = "run"
    /\ cur.k = 0
    /\ LET f == Top
       IN  /\ f.pos < Len(f.text)
           /\ out' = Append(out, Token("Error", At(f.text, f.pos), f.off + f.pos, f, ""))
           /\ Loops([stack EXCEPT ![Len(stack)].pos = f.pos + 1])
           /\ last' = Did("fallback", f, "", f.pos, f.pos + 1)
    /\ UNCHANGED <<lexer, input, spans, pc>>

\* a delegated loop is at the end of its text: the delegating loop yields the
\* tokens of the groups after the delegated one and goes on after its match
Return ==
    /\ pc = "run"
    /\ cur.k = 0
    /\ Len(stack) > 1
    /\ LET f == Top
           parent == stack[Len(stack) - 1]
       IN  /\ f.pos >= Len(f.text)
           /\ out' = out \o parent.after
           /\ Loops([SubSeq(stack, 1, Len(stack) - 1) EXCEPT
                       ![Len(stack) - 1].pos = parent.mend,
                       ![Len(stack) - 1].after = <<>>])
           /\ last' = Did("return", f, "", f.pos, f.pos)
    /\ UNCHANGED <<lexer, input, spans, pc>>

\* the caller's loop is at the end of the input
Finish ==
    /\ pc = "run"
    /\ cur.k = 0
    /\ Len(stack) = 1
    /\ Top.pos >= Len(Top.text)
    /\ pc' = "done"
    /\ last' = Did("finish", Top, "", Top.pos, Top.pos)
    /\ UNCHANGED <<lexer, input, stack, cur, out, spans>>

Next == GetTokensUnprocessed \/ MatchRule \/ Delegate \/ Fallback \/ Return \/ Finish

Spec == Init /\ [][Next]_vars

FairInit == \E lx \in Lexers : \E text \in FairInputs(lx) : Start(lx, text)

\* the loop runs until it ends
FairSpec == FairInit /\ [][Next]_vars /\ WF_vars(Next)

(***************************************************************************)
(* Properties                                                              *)
(***************************************************************************)
RECURSIVE Concat(_)
Concat(ts) == IF Len(ts) = 0 THEN "" ELSE ts[1].val \o Concat(Tail(ts))

Root == lexer = "TypoScript"
Done == pc = "done"
LastToken == out[Len(out)]
HasSpace(s) == \E i \in 1..Len(s) : SubSeq(s, i, i) \in SpaceChars
LineStart(text, p) == p = 0 \/ At(text, p - 1) = "\n"
\* the end of the line p is on: the index of its newline, or the end of text
LineEnd(text, p) == Smallest({q \in p..Len(text) : q = Len(text) \/ At(text, q) = "\n"})
\* the tokens as (type, text) pairs
Pairs(ts) == [i \in 1..Len(ts) |-> <<ts[i].cat, ts[i].val>>]

\* C1: the texts of the tokens yielded so far, concatenated in the order they
\* were yielded (those of a delegated tokenizer included), are the input up to
\* the cursor, each token starting where the one before it ends; when the
\* tokenizer is done they are the whole input.
C1_Lossless ==
    /\ Concat(out) = SubSeq(input, 1, Cursor)
    /\ \A i \in 1..Len(out) :
          out[i].at = (IF i = 1 THEN 0 ELSE out[i - 1].at + Len(out[i - 1].val))
    /\ Done => Concat(out) = input

\* the root tokenizer is done with an input of which it handed a part to
\* another tokenizer, whose tokens are among those yielded
C1_Witness ==
    /\ Root /\ Done /\ Len(spans) > 0
    /\ \E i \in 1..Len(out) : out[i].depth = 1
    /\ \E i \in 1..Len(out) : out[i].depth = 0

\* a loop iteration moves its loop's cursor forward: a match or a fallback at
\* once, a delegating match (which is not empty) when the delegated loop ends
C2_Advance ==
    \/ pc = "call"
    \/ pc' = "done"
    \/ Len(stack') = Len(stack) /\ Top'.pos > Top.pos
    \/ Len(stack') > Len(stack) /\ stack'[Len(stack)].mend > Top.pos
    \/ Len(stack') < Len(stack) /\ Top'.pos > stack[Len(stack')].pos

\* C2: no rule of any table wins with an empty match, every iteration of a
\* matching loop moves that loop's cursor forward, and tokenization, nested
\* calls included, comes to its end.
C2_Termination ==
    /\ [](last.kind \in {"match", "delegate", "fallback"} => last.end > last.start)
    /\ [][C2_Advance]_vars
    /\ <>Done

\* the root tokenizer is done after a delegated loop has run and returned
C2_Witness == Root /\ Done /\ Len(spans) > 0 /\ Len(out) >= 4

\* the order the claim gives: each include expanded in place
C3_Order ==
    comment \o constant \o html \o label \o whitespace \o keywords \o punctuation
        \o operator \o structure \o literal \o other

C3_Index(name) == CHOOSE i \in 1..Len(C3_Order) : C3_Order[i].name = name

C3_Matches(i, p) == RuleMatch(C3_Order[i], "TypoScript", input, p).ok

\* C3: the rule that yields the root tokenizer's tokens at a cursor position
\* is the first rule, in the order comment, constant, html, label, whitespace,
\* keywords, punctuation, operator, structure, literal, other, that matches
\* there; ',' and '.' at the cursor are Punctuation and no Operator token is
\* ',' or '.'.
C3_FirstMatchWins ==
    /\ (last.lx = "TypoScript" /\ last.kind \in {"match", "delegate"}) =>
          /\ C3_Matches(C3_Index(last.rule), last.start)
          /\ \A j \in 1..(C3_Index(last.rule) - 1) : ~C3_Matches(j, last.start)
    /\ (last.lx = "TypoScript" /\ last.kind = "fallback") =>
          \A j \in 1..Len(C3_Order) : ~C3_Matches(j, last.start)
    /\ (last.lx = "TypoScript" /\ last.kind # "init"
          /\ At(input, last.start) \in {",", "."}) =>
          /\ last.kind = "match" /\ last.rule = "punctuation-1"
          /\ LastToken.cat = "Punctuation" /\ LastToken.at = last.start
    /\ \A i \in 1..Len(out) :
          (out[i].lx = "TypoScript" /\ out[i].cat = "Operator") => out[i].val \notin {",", "."}

\* ',' was at the cursor, where the operator rule matches too
C3_Witness ==
    /\ Root /\ last.kind = "match" /\ last.rule = "punctuation-1"
    /\ RuleMatch(operator_1, "TypoScript", input, last.start).ok
    /\ LastToken.val = ","

\* no rule of the innermost loop's table matches at its cursor
C4_NoRule ==
    \A i \in 1..Len(Tokens(Top.lx)) :
        ~RuleMatch(Tokens(Top.lx)[i], Top.lx, Top.text, Top.pos).ok

C4_Step ==
    IF pc = "run" /\ C4_NoRule /\ Top.pos < Len(Top.text)
    THEN /\ Len(out') = Len(out) + 1
         /\ out'[Len(out')].cat = "Error"
         /\ out'[Len(out')].val = At(input, Cursor)
         /\ out'[Len(out')].at = Cursor
         /\ Cursor' = Cursor + 1
    ELSE \A i \in (Len(out) + 1)..Len(out') : out'[i].cat # "Error"

\* C4: tokenization never stops short of its end; where no rule of the active
\* table matches at the cursor, and only there, one Error token of exactly the
\* character at the cursor is yielded and the cursor moves by one; the input
\* "~", a character no rule of any of the three tables matches, yields exactly
\* one Error token, "~".
C4_FallbackSafety ==
    /\ [](Done \/ ENABLED Next)
    /\ [][C4_Step]_vars
    /\ []((Done /\ input = "~") => Pairs(out) = <<<<"Error", "~">>>>)

\* a character that no rule matches was met inside a delegated loop
C4_Witness ==
    /\ Root /\ last.kind = "fallback" /\ last.depth = 1
    /\ LastToken.cat = "Error" /\ LastToken.val = "~"

\* the characters of text at a..b-1, those that exist
Slice(text, a, b) ==
    LET lo == IF a < 0 THEN 0 ELSE a
        hi == IF b > Len(text) THEN Len(text) ELSE b
    IN  IF lo >= hi THEN "" ELSE SubSeq(text, lo + 1, hi)
StartsAt(s, p) == Slice(input, p, p + Len(s)) = s

\* token t covers a character of input[a..b-1]
Overlaps(t, a, b) == t.at < b /\ t.at + Len(t.val) > a
\* the tokens as (tokenizer, type, text) triples
Triples(ts) == [i \in 1..Len(ts) |-> <<ts[i].lx, ts[i].cat, ts[i].val>>]

\* C5 as claimed: the root tokenizer's tokens for "<div>{register:foo}</div>",
\* and for a {register:value} form between an opening and a closing tag on one
\* line, include a Name.Constant token that TypoScriptHtmlDataLexer yielded
\* for the register's name.
C5_RegisterInHtmlSpan ==
    \A name \in {"register", "r"} :
        LET form == IF name = "r" THEN "<a>{r:f}</a>" ELSE "<div>{register:foo}</div>"
        IN  (Root /\ Done /\ input = form) =>
                \E i \in 1..Len(out) :
                    /\ out[i].lx = "TypoScriptHtmlData"
                    /\ out[i].cat = "Name.Constant"
                    /\ out[i].val = name

\* C5, amended: the span the root's '<...>' rule hands to
\* TypoScriptHtmlDataLexer is one tag: it starts with '<' followed by a
\* non-whitespace character, ends with the first '>' after that and holds no
\* newline; every token of TypoScriptHtmlDataLexer lies in such a span. So in
\* "<div>{register:foo}</div>" the spans are "<div>" and "</div>", and
\* {register:foo} is tokenized by the root's own constant rule ('{',
\* Name.Constant "register", ':', Name.Constant "foo", '}'); a
\* {register:value} form is tokenized inside the delegated span when it lies
\* inside the tag, as in "<a {r:f}>".
C5_TagDelegation ==
    /\ \A k \in 1..Len(spans) :
          spans[k].rule = "html-1" =>
             /\ spans[k].lx = "TypoScriptHtmlData"
             /\ spans[k].to >= spans[k].from + 3
             /\ At(input, spans[k].from) = "<"
             /\ At(input, spans[k].from + 1) \notin SpaceChars
             /\ At(input, spans[k].to - 1) = ">"
             /\ \A q \in (spans[k].from + 2)..(spans[k].to - 2) :
                   At(input, q) \notin {">", "\n"}
    /\ Root =>
          \A i \in 1..Len(out) :
              out[i].lx = "TypoScriptHtmlData" =>
                  \E k \in 1..Len(spans) :
                      /\ spans[k].rule = "html-1"
                      /\ spans[k].from <= out[i].at
                      /\ out[i].at + Len(out[i].val) <= spans[k].to
    /\ (Root /\ Done /\ input = "<div>{register:foo}</div>") =>
          /\ [k \in 1..Len(spans) |-> <<spans[k].from, spans[k].to>>] = <<<<0, 5>>, <<19, 25>>>>
          /\ Triples(out) =
               << <<"TypoScriptHtmlData", "String", "<">>,
                  <<"TypoScriptHtmlData", "String", "div">>,
                  <<"TypoScriptHtmlData", "String", ">">>,
                  <<"TypoScript", "String.Symbol", "{">>,
                  <<"TypoScript", "Name.Constant", "register">>,
                  <<"TypoScript", "Operator", ":">>,
                  <<"TypoScript", "Name.Constant", "foo">>,
                  <<"TypoScript", "String.Symbol", "}">>,
                  <<"TypoScriptHtmlData", "String", "<">>,
                  <<"TypoScriptHtmlData", "String", "/div">>,
                  <<"TypoScriptHtmlData", "String", ">">> >>
    /\ (Root /\ Done /\ input = "<a {r:f}>") =>
          \E i \in 1..Len(out) :
              /\ out[i].lx = "TypoScriptHtmlData"
              /\ out[i].cat = "Name.Constant"
              /\ out[i].val = "r"

\* the root tokenizer is done with "<div>{register:foo}</div>", both tags
\* handed over and the register's name yielded by the root itself
C5_Witness ==
    /\ Root /\ Done /\ input = "<div>{register:foo}</div>"
    /\ Len(spans) = 2
    /\ \E i \in 1..Len(out) :
          out[i].lx = "TypoScript" /\ out[i].cat = "Name.Constant" /\ out[i].val = "register"

\* C6 as claimed: when the input's first line starts with "//" and ends with a
\* newline, the first token is a Comment token that is the whole line, its
\* newline included, and no Operator or Text token covers any part of the line.
C6_WholeLineComment ==
    (Root /\ Done /\ StartsAt("//", 0) /\ LineEnd(input, 0) < Len(input)) =>
        /\ out[1].cat = "Comment"
        /\ out[1].val = Slice(input, 0, LineEnd(input, 0) + 1)
        /\ \A i \in 1..Len(out) :
              Overlaps(out[i], 0, LineEnd(input, 0) + 1) => out[i].cat \notin {"Operator", "Text"}

\* C6, amended: when the root tokenizer's cursor is at the start of a line that
\* starts with "//", the comment rule wins and yields one Comment token that is
\* the line up to, and not including, its newline; the newline is left to the
\* next token, which is a Text or a Comment token.
C6_LineComment ==
    /\ (Root /\ last.depth = 0 /\ last.kind \notin {"init", "finish"}
          /\ LineStart(input, last.start)
          /\ StartsAt("//", last.start)) =>
          /\ last.kind = "match" /\ last.rule = "comment-1"
          /\ last.end = LineEnd(input, last.start)
          /\ LastToken.cat = "Comment"
          /\ LastToken.at = last.start
          /\ LastToken.val = Slice(input, last.start, LineEnd(input, last.start))
    /\ (Root /\ Done /\ StartsAt("//", 0)) =>
          /\ out[1].cat = "Comment"
          /\ out[1].val = Slice(input, 0, LineEnd(input, 0))
          /\ LineEnd(input, 0) < Len(input) =>
                /\ out[2].at = LineEnd(input, 0)
                /\ out[2].cat \in {"Text", "Comment"}

\* a "//" line that is not the first line has just been yielded as a Comment
\* token, its newline still to come
C6_Witness ==
    /\ Root /\ last.kind = "match" /\ last.rule = "comment-1"
    /\ last.start > 0 /\ LineStart(input, last.start)
    /\ StartsAt("//", last.start)
    /\ At(input, last.end) = "\n"

\* C7 as claimed: for every condition name of the keyword list, each of its
\* spellings in upper or lower case, and every rest without ']', the root
\* tokenizer's tokens for '[' name rest ']' are String.Symbol "[",
\* Name.Constant name, Text rest (when rest is not empty), String.Symbol "]";
\* "[browser = msie]" and "[BROWSER = msie]" give the same sequence of types,
\* and the condition rule is the one rule that matches case-insensitively.
C7_ConditionBlock ==
    /\ (Root /\ Done /\ At(input, 0) = "[") =>
          \A name \in ConditionNames : \A sp \in Spellings(name) : \A rest \in Rests :
              input = "[" \o sp \o rest \o "]" =>
              Pairs(out) =
                  <<<<"String.Symbol", "[">>, <<"Name.Constant", sp>>>>
                    \o (IF rest = "" THEN <<>> ELSE <<<<"Text", rest>>>>)
                    \o <<<<"String.Symbol", "]">>>>
    /\ (Root /\ Done /\ input \in {"[browser = msie]", "[BROWSER = msie]"}) =>
          [i \in 1..Len(out) |-> out[i].cat] =
              <<"String.Symbol", "Name.Constant", "Text", "String.Symbol">>
    /\ \A lx \in Lexers : \A i \in 1..Len(Tokens(lx)) :
          Tokens(lx)[i].icase <=> Tokens(lx)[i].name = "keywords-1"

AllSpace(s) == \A i \in 1..Len(s) : SubSeq(s, i, i) \in SpaceChars

C8_Absorbing ==
    {"comment-1", "comment-2", "comment-3", "constant-2", "html-2", "html-3",
     "label-1", "label-2", "whitespace-1", "keywords-1", "keywords-3"}

LineBegin(p) == Smallest({q \in 0..p : \A r \in q..(p - 1) : At(input, r) # "\n"})

\* p holds a '#' that is the first non-whitespace character of its line and
\* has no three hex digits after it
C9_HashLine(p) ==
    /\ At(input, p) = "#"
    /\ \A r \in LineBegin(p)..(p - 1) : At(input, r) \in SpaceChars
    /\ ~(\A d \in 1..3 : At(input, p + d) \in HexChars)

\* C9 as claimed: on a line whose first non-whitespace character is a '#'
\* with no 3- or 6-digit hex pattern after it, every token of the root
\* tokenizer that covers a character from that '#' to the end of the line is
\* a Comment token.
C9_HashToEndOfLine ==
    (Root /\ Done) =>
        \A p \in 0..(Len(input) - 1) :
            C9_HashLine(p) =>
                \A i \in 1..Len(out) :
                    Overlaps(out[i], p, LineEnd(input, p)) => out[i].cat = "Comment"

\* the first "\n)" of input at or after p, Len(input) when there is none
C10_FirstClose(p) ==
    Smallest({q \in p..Len(input) : q = Len(input) \/ StartsAt("\n)", q)})

\* C10 as claimed: the span the _CSS_DEFAULT_STYLE rule hands to
\* TypoScriptCssDataLexer starts after the opening '(' and ends at the first
\* newline after it that is followed by ')'.
C10_CssSpanToFirstClose ==
    \A k \in 1..Len(spans) :
        spans[k].rule = "html-3" =>
            /\ spans[k].lx = "TypoScriptCssData"
            /\ At(input, spans[k].from - 1) = "("
            /\ spans[k].to = C10_FirstClose(spans[k].from)

=============================================================================
